---- MODULE Spec2Model ----
(***************************************************************************)
(* Model of src/main.py: the traffic-accident dashboard.                   *)
(*                                                                         *)
(* load_csvs reads one CSV per year into the module-level DF_RAW, the Dash *)
(* callback update_figs recomputes three views (month x weekday pivot,     *)
(* weekday bars, per-minute series for the RN region) from DF_RAW on every *)
(* change of the year dropdown or of the hour slider.                      *)
(*                                                                         *)
(* Text is modelled as the sequence of its characters or of its numeric    *)
(* fields: a date "04/01/2016" is <<4, 1, 2016>> in written order, a time  *)
(* "08:15:30" is <<8, 15, 30>>, a region "RN" is <<"R", "N">>, and a year  *)
(* token "2016" is <<"2", "0", "1", "6">>.  An empty CSV field is <<>>.    *)
(***************************************************************************)
EXTENDS Integers, Sequences, FiniteSets, TLC

(***************************************************************************)
(* Bounds of the model.                                                    *)
(***************************************************************************)
\* Largest number of rows in all the year files together.
MaxRows == 2
\* Number of request threads that run update_figs concurrently.
MaxThreads == 2

(***************************************************************************)
(* Module-level constants of main.py.                                      *)
(***************************************************************************)
YEARS == <<2016, 2017, 2018, 2019>>

MESES_PT ==
    << "janeiro", "fevereiro", "marco", "abril", "maio", "junho", "julho",
       "agosto", "setembro", "outubro", "novembro", "dezembro" >>

DIAS_PT ==
    << "segunda-feira", "terca-feira", "quarta-feira", "quinta-feira",
       "sexta-feira", "sabado", "domingo" >>

\* The missing value pandas puts where errors="coerce" could not parse, where
\* a map() finds no key and where a reindex() finds no label.
NaN == -1
\* The same missing value in a column of names (mes_nome, dia_nome).
NaName == "nan"
\* The missing timestamp.
NaT == [year |-> NaN, month |-> NaN, day |-> NaN,
        hour |-> NaN, minute |-> NaN, second |-> NaN]

Range(s) == {s[i] : i \in DOMAIN s}

(***************************************************************************)
(* pd.to_datetime(df["data_inversa"], dayfirst=True, errors="coerce") and  *)
(* the .dt accessors of lines 47-49.                                       *)
(***************************************************************************)
IsLeap(y) == (y % 4 = 0 /\ y % 100 # 0) \/ y % 400 = 0

DaysInMonth(y, m) ==
    IF m = 2 THEN (IF IsLeap(y) THEN 29 ELSE 28)
    ELSE IF m \in {4, 6, 9, 11} THEN 30 ELSE 31

DaysBeforeMonth(y, m) ==
    LET cum == <<0, 31, 59, 90, 120, 151, 181, 212, 243, 273, 304, 334>>
    IN cum[m] + (IF m > 2 /\ IsLeap(y) THEN 1 ELSE 0)

\* Proleptic Gregorian ordinal: 0001-01-01 is day 1.
Ordinal(y, m, d) ==
    LET p == y - 1
    IN p * 365 + (p \div 4) - (p \div 100) + (p \div 400)
       + DaysBeforeMonth(y, m) + d

\* Day-first reading of "dd/mm/yyyy"; anything that is no calendar date is NaT.
\* (pandas versions differ on a text such as "01/13/2016", which only a
\* month-first reading makes a date; the rows of RowPool hold no such text.)
to_datetime_dayfirst(s) ==
    IF Len(s) = 3 /\ s[2] \in 1..12 /\ s[3] \in 1..9999
       /\ s[1] \in 1..DaysInMonth(s[3], s[2])
    THEN [NaT EXCEPT !.year = s[3], !.month = s[2], !.day = s[1]]
    ELSE NaT

dt_month(t) == t.month

\* A weekday accessor whose missing value has become 0.
dt_weekday_zero(t) ==
    IF t.year = NaN THEN 0 ELSE (Ordinal(t.year, t.month, t.day) + 6) % 7

\* Monday is 0, Sunday is 6.
dt_weekday(t) ==
    IF t.year = NaN THEN NaN ELSE (Ordinal(t.year, t.month, t.day) + 6) % 7

(***************************************************************************)
(* pd.to_datetime(df["horario"], format="%H:%M:%S", errors="coerce") and   *)
(* the .dt accessors of lines 51-55.                                       *)
(***************************************************************************)
to_datetime_hms(s) ==
    IF Len(s) = 3 /\ s[1] \in 0..23 /\ s[2] \in 0..59 /\ s[3] \in 0..59
    THEN [NaT EXCEPT !.year = 1900, !.month = 1, !.day = 1,
                     !.hour = s[1], !.minute = s[2], !.second = s[3]]
    ELSE NaT

dt_hour(t) == t.hour
dt_minute(t) == t.minute

(***************************************************************************)
(* load_csvs.  A file system maps each year to [exists, rows]; a raw row   *)
(* is [data_inversa, horario, uf].                                         *)
(***************************************************************************)
\* Lines 45-55: the columns added to one row of the file of year yr.
DeriveRow(raw, yr) ==
    LET data == to_datetime_dayfirst(raw.data_inversa)
        horario_dt == to_datetime_hms(raw.horario)
    IN [data_inversa |-> raw.data_inversa,
        horario      |-> raw.horario,
        uf           |-> raw.uf,
        ano          |-> yr,
        data         |-> data,
        mes          |-> dt_month(data),
        dia_semana   |-> dt_weekday(data),
        horario_dt   |-> horario_dt,
        hour         |-> dt_hour(horario_dt),
        minute       |-> dt_minute(horario_dt)]

\* Lines 44-56: the frame of one year file.
read_csv(files, yr) ==
    [i \in 1..Len(files[yr].rows) |-> DeriveRow(files[yr].rows[i], yr)]

RECURSIVE LoadFrames(_, _, _)
\* Lines 38-56: the loop over years, from position k; a missing file is skipped.
LoadFrames(files, years, k) ==
    IF k > Len(years) THEN <<>>
    ELSE IF ~files[years[k]].exists
         THEN LoadFrames(files, years, k + 1)
         ELSE <<read_csv(files, years[k])>> \o LoadFrames(files, years, k + 1)

RECURSIVE concat(_)
\* pd.concat(frames, ignore_index=True)
concat(frames) ==
    IF frames = <<>> THEN <<>> ELSE Head(frames) \o concat(Tail(frames))

\* A load that takes a missing file for a fatal error.
load_csvs_strict(files, years) ==
    LET frames == LoadFrames(files, years, 1)
    IN IF \E i \in DOMAIN years : ~files[years[i]].exists
       THEN [raised |-> "FileNotFoundError", frame |-> <<>>]
       ELSE [raised |-> "", frame |-> concat(frames)]

\* Lines 37-61.
load_csvs(files, years) ==
    LET frames == LoadFrames(files, years, 1)
    IN IF frames = <<>>
       THEN [raised |-> "FileNotFoundError", frame |-> <<>>]
       ELSE [raised |-> "", frame |-> concat(frames)]

(***************************************************************************)
(* prep_pivot (lines 67-76).  A frame is the sequence of its rows, a row a *)
(* function from column names to values.                                   *)
(***************************************************************************)
\* Series.map(dict(zip(range(1, 13), MESES_PT))): a key not in the dict is missing.
map_mes(mes) == IF mes \in 1..12 THEN MESES_PT[mes] ELSE NaName

\* Series.map(dict(zip(range(7), DIAS_PT)))
map_dia(dia) == IF dia \in 0..6 THEN DIAS_PT[dia + 1] ELSE NaName

\* Lines 68-69: the two column assignments, on every row of the frame.
set_names(rows) ==
    [i \in DOMAIN rows |->
        [mes_nome |-> map_mes(rows[i].mes), dia_nome |-> map_dia(rows[i].dia_semana)]
        @@ rows[i]]

\* Lines 71-72: groupby(["mes_nome", "dia_nome"]).size(); rows with a missing
\* key are dropped, only observed pairs are groups.
pivot_size(rows) ==
    LET key(i) == <<rows[i].mes_nome, rows[i].dia_nome>>
        kept == {i \in DOMAIN rows :
                    rows[i].mes_nome # NaName /\ rows[i].dia_nome # NaName}
        keys == {key(i) : i \in kept}
    IN [k \in keys |-> Cardinality({i \in kept : key(i) = k})]

\* Line 73: unstack(fill_value=0): observed months x observed weekdays.
unstack(size, fill_value) ==
    LET index == {k[1] : k \in DOMAIN size}
        columns == {k[2] : k \in DOMAIN size}
    IN [m \in index |->
          [d \in columns |->
              IF <<m, d>> \in DOMAIN size THEN size[<<m, d>>] ELSE fill_value]]

\* Line 74: reindex(index=MESES_PT, columns=DIAS_PT): a label the table does
\* not have becomes a row or column of missing values.
reindex(tabela, index, columns) ==
    [m \in Range(index) |->
       [d \in Range(columns) |->
           IF m \in DOMAIN tabela /\ d \in DOMAIN tabela[m]
           THEN tabela[m][d] ELSE NaN]]

\* Lines 67-76: the frame as prep_pivot leaves it, and the table it returns.
prep_pivot(rows) ==
    LET df == set_names(rows)
    IN [df |-> df,
        tabela |-> reindex(unstack(pivot_size(df), 0), MESES_PT, DIAS_PT)]

(***************************************************************************)
(* The weekday bars (line 148).                                            *)
(***************************************************************************)
\* groupby("dia_semana").size()
weekday_size(rows) ==
    LET keys == {rows[i].dia_semana : i \in DOMAIN rows} \ {NaN}
    IN [d \in keys |-> Cardinality({i \in DOMAIN rows : rows[i].dia_semana = d})]

\* Series.reindex(range(7))
reindex_series(s, labels) ==
    [d \in labels |-> IF d \in DOMAIN s THEN s[d] ELSE NaN]

\* Series.fillna(0)
fillna(s, value) == [d \in DOMAIN s |-> IF s[d] = NaN THEN value ELSE s[d]]

\* The bars without the final fillna.
bars_nofill(rows) == reindex_series(weekday_size(rows), 0..6)

\* Line 148.
bars_of(rows) == fillna(reindex_series(weekday_size(rows), 0..6), 0)

(***************************************************************************)
(* The minute series (lines 157-173).                                      *)
(***************************************************************************)
UPPER ==
    << "A", "B", "C", "D", "E", "F", "G", "H", "I", "J", "K", "L", "M",
       "N", "O", "P", "Q", "R", "S", "T", "U", "V", "W", "X", "Y", "Z" >>

LOWER ==
    << "a", "b", "c", "d", "e", "f", "g", "h", "i", "j", "k", "l", "m",
       "n", "o", "p", "q", "r", "s", "t", "u", "v", "w", "x", "y", "z" >>

\* Case folding of one character.
casefold(c) ==
    IF \E k \in DOMAIN UPPER : UPPER[k] = c
    THEN LOWER[CHOOSE k \in DOMAIN UPPER : UPPER[k] = c]
    ELSE c

\* A match that respects case.
str_contains_case(s, pat, na) ==
    IF s = <<>> THEN na
    ELSE \E i \in 1..(Len(s) - Len(pat) + 1) :
            \A j \in 1..Len(pat) : s[i + j - 1] = pat[j]

\* Series.str.contains(pat, na=na, case=False) on one value; the empty CSV
\* field is the missing value.
str_contains(s, pat, na) ==
    IF s = <<>> THEN na
    ELSE \E i \in 1..(Len(s) - Len(pat) + 1) :
            \A j \in 1..Len(pat) : casefold(s[i + j - 1]) = casefold(pat[j])

\* The region searched for in line 157.
RN == <<"R", "N">>

\* Series.dt.strftime("%H:%M"): hour and minute, the seconds are not written.
strftime_HM(t) == IF t.hour = NaN THEN <<>> ELSE <<t.hour, t.minute>>

\* pd.to_datetime(..., format="%H:%M")
to_datetime_hm(s) ==
    IF Len(s) = 2 /\ s[1] \in 0..23 /\ s[2] \in 0..59
    THEN [NaT EXCEPT !.year = 1900, !.month = 1, !.day = 1,
                     !.hour = s[1], !.minute = s[2], !.second = 0]
    ELSE NaT

\* Lines 157-161: the RN rows, with the columns hora and hora_minuto.
natal(rows) ==
    LET isRN(r) == str_contains(r.uf, RN, FALSE)
        sel == SelectSeq(rows, isRN)
    IN [i \in DOMAIN sel |->
          [hora |-> dt_hour(sel[i].horario_dt),
           hora_minuto |-> to_datetime_hm(strftime_HM(sel[i].horario_dt))]
          @@ sel[i]]

\* An hour window that leaves out its upper end.
hour_window_open(rows, hour_range) ==
    LET inside(r) == r.hora # NaN /\ r.hora >= hour_range[1] /\ r.hora < hour_range[2]
    IN SelectSeq(rows, inside)

\* Lines 163-166: a comparison with a missing hour is false.
hour_window(rows, hour_range) ==
    LET start_hour == hour_range[1]
        end_hour == hour_range[2]
        inside(r) == (r.hora # NaN /\ r.hora >= start_hour)
                     /\ (r.hora # NaN /\ r.hora <= end_hour)
    IN SelectSeq(rows, inside)

\* Order of two timestamps of the same day.
TsLess(a, b) ==
    \/ a.hour < b.hour
    \/ a.hour = b.hour /\ a.minute < b.minute
    \/ a.hour = b.hour /\ a.minute = b.minute /\ a.second < b.second

\* The order groupby leaves the groups in: by hora_minuto, then by ano.
GroupLess(p, q) ==
    \/ TsLess(p.hora_minuto, q.hora_minuto)
    \/ p.hora_minuto = q.hora_minuto /\ p.ano < q.ano

\* The order sort_values(["ano", "hora_minuto"]) asks for.
SortLess(p, q) ==
    \/ p.ano < q.ano
    \/ p.ano = q.ano /\ TsLess(p.hora_minuto, q.hora_minuto)

RECURSIVE GroupsInOrder(_)
\* The groups of a groupby, as rows in the order of their keys.
GroupsInOrder(S) ==
    IF S = {} THEN <<>>
    ELSE LET p == CHOOSE x \in S : \A y \in S : ~GroupLess(y, x)
         IN <<p>> \o GroupsInOrder(S \ {p})

\* Lines 169-171: groupby(["hora_minuto", "ano"]).size().reset_index(name="count")
groupby_minute(rows) ==
    LET kept == {i \in DOMAIN rows : rows[i].hora_minuto # NaT}
        points == {[hora_minuto |-> rows[i].hora_minuto, ano |-> rows[i].ano,
                    count |-> Cardinality({j \in kept :
                                  /\ rows[j].hora_minuto = rows[i].hora_minuto
                                  /\ rows[j].ano = rows[i].ano})] : i \in kept}
    IN GroupsInOrder(points)

RemoveAt(s, i) == [k \in 1..(Len(s) - 1) |-> IF k < i THEN s[k] ELSE s[k + 1]]

\* The series left in the order of the groupby.
sort_values_skipped(s) == s

RECURSIVE sort_values(_)
\* Line 172: sort_values(["ano", "hora_minuto"]).
sort_values(s) ==
    IF s = <<>> THEN <<>>
    ELSE LET i == CHOOSE k \in DOMAIN s : \A j \in DOMAIN s : ~SortLess(s[j], s[k])
         IN <<s[i]>> \o sort_values(RemoveAt(s, i))

\* Lines 157-173.
minute_counts_of(rows, hour_range) ==
    sort_values(groupby_minute(hour_window(natal(rows), hour_range)))

(***************************************************************************)
(* update_figs (lines 126-189), step by step.                              *)
(***************************************************************************)
\* The value of the dropdown option "Todos".
ALL == <<"a", "l", "l">>

DIGITS == <<"0", "1", "2", "3", "4", "5", "6", "7", "8", "9">>

DigitValue(c) == (CHOOSE k \in DOMAIN DIGITS : DIGITS[k] = c) - 1

RECURSIVE int(_)
\* int(y) of a string of decimal digits (line 132).
int(y) ==
    IF y = <<>> THEN 0
    ELSE 10 * int(SubSeq(y, 1, Len(y) - 1)) + DigitValue(y[Len(y)])

RECURSIVE digits_of(_)
digits_of(n) ==
    IF n < 10 THEN <<DIGITS[n + 1]>>
    ELSE digits_of(n \div 10) \o <<DIGITS[(n % 10) + 1]>>

\* str(yr): the value of a year option of the dropdown (line 91).
str(yr) == digits_of(yr)

\* The values the dropdown offers (lines 90-91).
DropdownOptions == {ALL} \cup {str(YEARS[i]) : i \in DOMAIN YEARS}

\* A selection by the year written in the row's date.
select_by_date(raw, selected_years) ==
    IF selected_years = {} \/ ALL \in selected_years THEN raw
    ELSE LET yrs == {int(y) : y \in selected_years}
             isin(r) == r.data.year \in yrs
         IN SelectSeq(raw, isin)

\* Lines 128-133: the rows update_figs works on.
select_years(raw, selected_years) ==
    IF selected_years = {} \/ ALL \in selected_years THEN raw
    ELSE LET yrs == {int(y) : y \in selected_years}
             isin(r) == r.ano \in yrs
         IN SelectSeq(raw, isin)

(***************************************************************************)
(* The program state.                                                      *)
(*   files    the /dataset/ folder: year -> [exists, rows]                 *)
(*   pc       position of the module's top-level code                      *)
(*   raised   the exception that ended the import, "" if none              *)
(*   started  whether thread.start() of line 197 has run                   *)
(*   heap     the DataFrame objects: 0 is DF_RAW, t is the df of the       *)
(*            update_figs invocation running on request thread t           *)
(*   req      per request thread: position in update_figs, its arguments,  *)
(*            the object its local df names, and what it has computed      *)
(***************************************************************************)
VARIABLES files, pc, raised, started, heap, req

vars == <<files, pc, raised, started, heap, req>>

DF_RAW == heap[0]

\* The object DF_RAW names, bound to df without a copy.
df_alias(t) == 0

\* Line 129: DF_RAW.copy() is a new object, owned by the invocation.
df_copy(t) == t

\* Line 133: indexing by a boolean mask builds a new object.
df_masked(t) == t

Idle ==
    [pc |-> "idle", selected_years |-> {}, hour_range |-> <<0, 23>>, df |-> 0,
     pivot |-> <<>>, bars |-> <<>>, minute_counts |-> <<>>]

(***************************************************************************)
(* Inputs.                                                                 *)
(***************************************************************************)
\* Rows a year file may hold: dates that parse and that do not, times that
\* parse and that do not, regions that match "RN" and that do not.
\* Monday 4 January 2016, 08:15:00, RN.
RowA == [data_inversa |-> <<4, 1, 2016>>,  horario |-> <<8, 15, 0>>,   uf |-> <<"R", "N">>]
\* 31 February: no date.  Same minute as RowA, region in lower case.
RowB == [data_inversa |-> <<31, 2, 2016>>, horario |-> <<8, 15, 30>>,  uf |-> <<"r", "n">>]
\* Tuesday 2 February 2016, hour 24: no time.
RowC == [data_inversa |-> <<2, 2, 2016>>,  horario |-> <<24, 0, 0>>,   uf |-> <<"R", "n">>]
\* Sunday 1 January 2017, another region.
RowD == [data_inversa |-> <<1, 1, 2017>>,  horario |-> <<23, 59, 59>>, uf |-> <<"P", "R">>]
\* Tuesday 9 February 2016, midnight, RN.
RowE == [data_inversa |-> <<9, 2, 2016>>,  horario |-> <<0, 0, 0>>,    uf |-> <<"R", "N">>]
\* A row of empty fields.
RowF == [data_inversa |-> <<>>,            horario |-> <<>>,           uf |-> <<>>]

RowPool == {RowA, RowB, RowC, RowD, RowE, RowF}

YearSet == Range(YEARS)

\* The years whose files hold rows; the files of the other years are missing
\* or hold the header line alone.
DataYears == {YEARS[1], YEARS[2]}

\* The rows of all files, each with the year of its file, in the order of the
\* years and, within a year, of the file.
TaggedRows ==
    {tg \in UNION {[1..k -> DataYears \X RowPool] : k \in 0..MaxRows} :
        \A i \in DOMAIN tg : \A j \in DOMAIN tg : i < j => tg[i][1] <= tg[j][1]}

\* The folder in which exactly the files of the years in E exist.
MakeFiles(E, tg) ==
    [y \in YearSet |->
        [exists |-> y \in E,
         rows |-> LET mine(x) == x[1] = y
                      sel == SelectSeq(tg, mine)
                  IN [i \in DOMAIN sel |-> sel[i][2]]]]

\* Every folder in which the year files hold at most MaxRows rows together.
FileSystems ==
    UNION {{MakeFiles(E, tg) :
                tg \in {x \in TaggedRows : \A i \in DOMAIN x : x[i][1] \in E}} :
           E \in SUBSET YearSet}

\* Selections of the dropdown.
Selections ==
    { {}, {ALL}, {ALL, str(2016)}, {str(2016)}, {str(2017)},
      {str(2016), str(2017)}, {str(2017), str(2018), str(2019)},
      {str(2016), str(2017), str(2018), str(2019)} }

\* Positions of the two handles of the hour slider.
HourRanges == { <<0, 23>>, <<8, 8>>, <<23, 0>> }

(***************************************************************************)
(* Actions.                                                                *)
(***************************************************************************)
\* Line 64: DF_RAW = load_csvs(folder_path, YEARS); an exception ends the import.
Load ==
    /\ pc = "import"
    /\ LET r == load_csvs(files, YEARS)
       IN /\ raised' = r.raised
          /\ heap' = [heap EXCEPT ![0] = r.frame]
          /\ pc' = IF r.raised = "" THEN "loaded" ELSE "aborted"
    /\ UNCHANGED <<files, started, req>>

\* Lines 79-197: the app is built and the server thread started.
StartThread ==
    /\ pc = "loaded"
    /\ pc' = "serving"
    /\ started' = TRUE
    /\ UNCHANGED <<files, raised, heap, req>>

\* Lines 128-133 on thread t, in the state s = [heap, req] of the objects and
\* of the invocation.
DoSelect(t, s) ==
    LET all == s.req.selected_years = {} \/ ALL \in s.req.selected_years
        o == IF all THEN df_copy(t) ELSE df_masked(t)
    IN [heap |-> [s.heap EXCEPT ![o] = select_years(s.heap[0], s.req.selected_years)],
        req  |-> [s.req EXCEPT !.df = o, !.pc = "pivot"]]

\* Line 136 on thread t: prep_pivot writes two columns into the object df names.
DoPivot(t, s) ==
    LET pp == prep_pivot(s.heap[s.req.df])
    IN [heap |-> [s.heap EXCEPT ![s.req.df] = pp.df],
        req  |-> [s.req EXCEPT !.pivot = pp.tabela, !.pc = "bars"]]

\* Line 148 on thread t.
DoBars(t, s) ==
    [heap |-> s.heap,
     req  |-> [s.req EXCEPT !.bars = bars_of(s.heap[s.req.df]), !.pc = "minute"]]

\* Lines 157-189 on thread t.
DoMinute(t, s) ==
    [heap |-> s.heap,
     req  |-> [s.req EXCEPT
                 !.minute_counts = minute_counts_of(s.heap[s.req.df], s.req.hour_range),
                 !.pc = "done"]]

\* The objects and thread t's invocation become those of s.
Becomes(t, s) ==
    /\ heap' = s.heap
    /\ req' = [req EXCEPT ![t] = s.req]

\* One whole invocation of the callback: lines 126-189.
update_figs(selected_years, hour_range) ==
    /\ pc = "serving"
    /\ req[1].pc = "idle"
    /\ Becomes(1, DoMinute(1, DoBars(1, DoPivot(1, DoSelect(1,
           [heap |-> heap,
            req  |-> [Idle EXCEPT !.selected_years = selected_years,
                                  !.hour_range = hour_range]])))))
    /\ UNCHANGED <<files, pc, raised, started>>

\* Line 189 on thread t: the figures are returned, the locals of the invocation
\* go out of scope and the object only df named is freed.
Return(t) ==
    /\ req[t].pc = "done"
    /\ req' = [req EXCEPT ![t] = Idle]
    /\ heap' = IF req[t].df = 0 THEN heap ELSE [heap EXCEPT ![req[t].df] = <<>>]
    /\ UNCHANGED <<files, pc, raised, started>>

Init ==
    /\ files \in FileSystems
    /\ pc = "import"
    /\ raised = ""
    /\ started = FALSE
    /\ heap = [o \in 0..1 |-> <<>>]
    /\ req = [t \in 1..1 |-> Idle]

Next ==
    \/ Load
    \/ StartThread
    \/ \E sy \in Selections, hr \in HourRanges : update_figs(sy, hr)
    \/ Return(1)

Spec == Init /\ [][Next]_vars

(***************************************************************************)
(* The same program with the requests served by concurrent threads: every  *)
(* statement group of update_figs is a step, and the steps of different    *)
(* threads interleave.                                                     *)
(***************************************************************************)
\* Folders of the concurrent runs: no file at all, two years, all four years.
ThreadFiles ==
    { MakeFiles({}, <<>>),
      MakeFiles({YEARS[1], YEARS[2]}, << <<YEARS[1], RowA>>, <<YEARS[2], RowC>> >>),
      MakeFiles(YearSet, << <<YEARS[1], RowB>>, <<YEARS[1], RowE>>, <<YEARS[2], RowA>> >>) }

ThreadSelections == { {ALL}, {str(2016)} }

ThreadHourRanges == { <<0, 23>>, <<8, 8>> }

\* Lines 119-126: a request reaches thread t and the callback is entered.
Receive(t, selected_years, hour_range) ==
    /\ pc = "serving"
    /\ req[t].pc = "idle"
    /\ req' = [req EXCEPT ![t] = [Idle EXCEPT !.selected_years = selected_years,
                                              !.hour_range = hour_range,
                                              !.pc = "select"]]
    /\ UNCHANGED <<files, pc, raised, started, heap>>

Select(t) ==
    /\ req[t].pc = "select"
    /\ Becomes(t, DoSelect(t, [heap |-> heap, req |-> req[t]]))
    /\ UNCHANGED <<files, pc, raised, started>>

Pivot(t) ==
    /\ req[t].pc = "pivot"
    /\ Becomes(t, DoPivot(t, [heap |-> heap, req |-> req[t]]))
    /\ UNCHANGED <<files, pc, raised, started>>

Bars(t) ==
    /\ req[t].pc = "bars"
    /\ Becomes(t, DoBars(t, [heap |-> heap, req |-> req[t]]))
    /\ UNCHANGED <<files, pc, raised, started>>

Minute(t) ==
    /\ req[t].pc = "minute"
    /\ Becomes(t, DoMinute(t, [heap |-> heap, req |-> req[t]]))
    /\ UNCHANGED <<files, pc, raised, started>>

InitThreads ==
    /\ files \in ThreadFiles
    /\ pc = "import"
    /\ raised = ""
    /\ started = FALSE
    /\ heap = [o \in 0..MaxThreads |-> <<>>]
    /\ req = [t \in 1..MaxThreads |-> Idle]

NextThreads ==
    \/ Load
    \/ StartThread
    \/ \E t \in DOMAIN req, sy \in ThreadSelections, hr \in ThreadHourRanges :
          Receive(t, sy, hr)
    \/ \E t \in DOMAIN req : Select(t)
    \/ \E t \in DOMAIN req : Pivot(t)
    \/ \E t \in DOMAIN req : Bars(t)
    \/ \E t \in DOMAIN req : Minute(t)
    \/ \E t \in DOMAIN req : Return(t)

SpecThreads == InitThreads /\ [][NextThreads]_vars

(***************************************************************************)
(* Vocabulary of the properties.                                           *)
(***************************************************************************)
Done(t) == req[t].pc = "done"

RECURSIVE SumOver(_, _)
\* Sum of f[x] for x in S.
SumOver(f, S) ==
    IF S = {} THEN 0
    ELSE LET x == CHOOSE y \in S : TRUE IN f[x] + SumOver(f, S \ {x})

\* The rows the finished invocation of thread t worked on.
DfOf(t) == heap[req[t].df]

Months == Range(MESES_PT)
Days == Range(DIAS_PT)

\* A region that holds "RN" in any mix of cases.
RegionMatches(uf) ==
    \E i \in 1..(Len(uf) - 1) : uf[i] \in {"R", "r"} /\ uf[i + 1] \in {"N", "n"}

DateParsed(r) == r.data # NaT
TimeParsed(r) == r.horario_dt # NaT

\* The sum of the counts of the points of a minute series.
TotalCount(mc) == SumOver([i \in DOMAIN mc |-> mc[i].count], DOMAIN mc)

\* The sum of the cells of a month x weekday table.
TotalCells(tab) ==
    SumOver([c \in Months \X Days |-> tab[c[1]][c[2]]], Months \X Days)

\* The rows of df that pass the region filter and the hour window.
InWindow(df, hr) ==
    {i \in DOMAIN df : /\ RegionMatches(df[i].uf)
                       /\ TimeParsed(df[i])
                       /\ hr[1] <= df[i].hour /\ df[i].hour <= hr[2]}

\* A row without the columns update_figs adds.
Loaded(r) == [c \in DOMAIN r \ {"mes_nome", "dia_nome"} |-> r[c]]

\* a >= b between two counts; a comparison with a missing value is false.
GreaterEq(a, b) == a # NaN /\ b # NaN /\ a >= b

NoFileExists == \A y \in YearSet : ~files[y].exists

(***************************************************************************)
(* C1.  The month x weekday table prep_pivot returns has 12 x 7 = 84       *)
(* cells, every cell is a count >= 0 (0 for a month and weekday without a  *)
(* row, never a missing value), and the cells sum to the number of rows    *)
(* whose month and weekday are both defined.                               *)
(***************************************************************************)
C1_PivotZeroFilled ==
    Done(1) =>
        LET tab == req[1].pivot
            df == DfOf(1)
        IN /\ DOMAIN tab = Months
           /\ \A m \in Months : DOMAIN tab[m] = Days
           /\ Cardinality(Months \X Days) = 84
           /\ \A m \in Months : \A d \in Days : tab[m][d] # NaN /\ tab[m][d] >= 0
           /\ TotalCells(tab) =
                 Cardinality({i \in DOMAIN df : df[i].mes # NaN /\ df[i].dia_semana # NaN})

(***************************************************************************)
(* C2.  The weekday vector of update_figs has exactly the 7 entries 0..6,  *)
(* each the number of rows of the subset with that weekday (0 when there   *)
(* is none), and the entries sum to the number of rows with a weekday.     *)
(***************************************************************************)
C2_WeekdayVector ==
    Done(1) =>
        LET bars == req[1].bars
            df == DfOf(1)
        IN /\ DOMAIN bars = 0..6
           /\ \A d \in 0..6 :
                 bars[d] = Cardinality({i \in DOMAIN df : df[i].dia_semana = d})
           /\ SumOver(bars, 0..6) =
                 Cardinality({i \in DOMAIN df : df[i].dia_semana # NaN})

\* A subset with a weekday that has rows, weekdays that have none and a row
\* without weekday.
C2_Witness ==
    /\ Done(1)
    /\ \E i \in DOMAIN DfOf(1) : DfOf(1)[i].dia_semana = NaN
    /\ \E d \in 0..6 : req[1].bars[d] > 0
    /\ \E d \in 0..6 : req[1].bars[d] = 0

(***************************************************************************)
(* C3.  update_figs selects its subset by the year tag alone: with an      *)
(* empty selection or one that holds "all" the subset is the whole of      *)
(* DF_RAW, otherwise it is the rows whose ano is selected, whatever year   *)
(* their date shows; the three views are those of that subset.             *)
(***************************************************************************)
C3_SubsetByYearTag ==
    Done(1) =>
        LET sy == req[1].selected_years
            tagged(r) == str(r.ano) \in sy
            subset == IF sy = {} \/ ALL \in sy THEN DF_RAW ELSE SelectSeq(DF_RAW, tagged)
            df == DfOf(1)
        IN /\ [i \in DOMAIN df |-> Loaded(df[i])] = subset
           /\ req[1].pivot = prep_pivot(subset).tabela
           /\ req[1].bars = bars_of(subset)
           /\ req[1].minute_counts = minute_counts_of(subset, req[1].hour_range)

\* Years are selected, and a selected row shows another year in its date
\* while a row that shows a selected year is not selected.
C3_Witness ==
    /\ Done(1)
    /\ req[1].selected_years = {str(2016)}
    /\ \E i \in DOMAIN DF_RAW : DF_RAW[i].ano = 2016 /\ DF_RAW[i].data.year = 2017
    /\ \E i \in DOMAIN DF_RAW : DF_RAW[i].ano = 2017 /\ DF_RAW[i].data.year = 2016
    /\ Len(DfOf(1)) = 1

(***************************************************************************)
(* C4.  The minute series counts exactly the region-matching rows whose    *)
(* hour h has start <= h <= end, both ends included: every point lies in   *)
(* the window, and a window with start > end gives the empty series.       *)
(***************************************************************************)
C4_HourWindowInclusive ==
    Done(1) =>
        LET hr == req[1].hour_range
            mc == req[1].minute_counts
        IN /\ TotalCount(mc) = Cardinality(InWindow(DfOf(1), hr))
           /\ \A k \in DOMAIN mc :
                 hr[1] <= mc[k].hora_minuto.hour /\ mc[k].hora_minuto.hour <= hr[2]
           /\ hr[1] > hr[2] => mc = <<>>

\* The window is one hour wide, a row of that hour is counted and a
\* region-matching row of another hour is not.
C4_Witness ==
    /\ Done(1)
    /\ req[1].hour_range = <<8, 8>>
    /\ TotalCount(req[1].minute_counts) > 0
    /\ \E i \in DOMAIN DfOf(1) :
          /\ RegionMatches(DfOf(1)[i].uf)
          /\ TimeParsed(DfOf(1)[i])
          /\ DfOf(1)[i].hour # 8

(***************************************************************************)
(* C5.  With the window [0, 23] and every row of the subset matching the   *)
(* region, the counts of the minute series sum to the number of rows with  *)
(* a parsed time: a row without one adds nothing, no other row is lost.    *)
(***************************************************************************)
C5_FullDayTotal ==
    (/\ Done(1)
     /\ req[1].hour_range = <<0, 23>>
     /\ \A i \in DOMAIN DfOf(1) : RegionMatches(DfOf(1)[i].uf))
    => TotalCount(req[1].minute_counts) =
          Cardinality({i \in DOMAIN DfOf(1) : TimeParsed(DfOf(1)[i])})

\* A subset of region rows, one with a time and one without, one of them
\* written in lower case.
C5_Witness ==
    /\ Done(1)
    /\ req[1].hour_range = <<0, 23>>
    /\ \A i \in DOMAIN DfOf(1) : RegionMatches(DfOf(1)[i].uf)
    /\ \E i \in DOMAIN DfOf(1) : TimeParsed(DfOf(1)[i]) /\ DfOf(1)[i].uf # RN
    /\ \E i \in DOMAIN DfOf(1) : ~TimeParsed(DfOf(1)[i])

(***************************************************************************)
(* C6.  load_csvs skips a missing year file and loads the others, every    *)
(* row tagged with the year of its file, in the order of YEARS and then of *)
(* the file; it raises exactly when no file exists, and then the server    *)
(* thread is never started and update_figs never runs.                     *)
(***************************************************************************)
C6_LoadOrAbort ==
    /\ NoFileExists => ~started /\ pc \in {"import", "aborted"}
                       /\ \A t \in DOMAIN req : req[t].pc = "idle"
    /\ pc # "import" => (raised # "" <=> NoFileExists)
    /\ pc = "aborted" <=> raised # ""
    /\ pc \in {"loaded", "serving"} =>
          /\ \A k \in DOMAIN YEARS :
                LET ofYear(r) == r.ano = YEARS[k]
                    part == SelectSeq(DF_RAW, ofYear)
                    file == files[YEARS[k]]
                IN IF file.exists
                   THEN [i \in DOMAIN part |->
                            [data_inversa |-> part[i].data_inversa,
                             horario |-> part[i].horario,
                             uf |-> part[i].uf]] = file.rows
                   ELSE part = <<>>
          /\ \A i \in DOMAIN DF_RAW : \A j \in DOMAIN DF_RAW :
                i < j => \E a \in DOMAIN YEARS : \E b \in DOMAIN YEARS :
                            a <= b /\ DF_RAW[i].ano = YEARS[a] /\ DF_RAW[j].ano = YEARS[b]

\* The first year file is missing, a later one holds rows, the server runs.
C6_Witness ==
    /\ pc = "serving"
    /\ ~files[YEARS[1]].exists
    /\ Len(files[YEARS[2]].rows) > 0
    /\ Len(DF_RAW) = Len(files[YEARS[2]].rows)

(***************************************************************************)
(* C7.  A row whose date or time does not parse stays in the dataset with  *)
(* only the fields derived from it undefined.  A row without date is in no *)
(* cell of the table and in no entry of the weekday vector, but is counted *)
(* in the minute series when its time parses and it passes the region and  *)
(* hour filters; a row without time is counted in table and vector.        *)
(***************************************************************************)
C7_UnparsedRows ==
    /\ pc \in {"loaded", "serving"} =>
          \A i \in DOMAIN DF_RAW :
             LET r == DF_RAW[i]
             IN /\ DateParsed(r) <=> (r.mes \in 1..12 /\ r.dia_semana \in 0..6)
                /\ ~DateParsed(r) <=> (r.mes = NaN /\ r.dia_semana = NaN)
                /\ TimeParsed(r) <=> (r.hour \in 0..23 /\ r.minute \in 0..59)
                /\ ~TimeParsed(r) <=> (r.hour = NaN /\ r.minute = NaN)
    /\ Done(1) =>
          LET df == DfOf(1)
              tab == req[1].pivot
              cell(i) == tab[MESES_PT[df[i].mes]][DIAS_PT[df[i].dia_semana + 1]]
          IN /\ \A i \in DOMAIN df : DateParsed(df[i]) => cell(i) >= 1
             /\ \A m \in DOMAIN MESES_PT : \A d \in 0..6 :
                   tab[MESES_PT[m]][DIAS_PT[d + 1]] # NaN =>
                      tab[MESES_PT[m]][DIAS_PT[d + 1]] =
                         Cardinality({i \in DOMAIN df : /\ DateParsed(df[i])
                                                        /\ df[i].mes = m
                                                        /\ df[i].dia_semana = d})
             /\ \A d \in 0..6 :
                   req[1].bars[d] =
                      Cardinality({i \in DOMAIN df : /\ DateParsed(df[i])
                                                     /\ df[i].dia_semana = d})
             /\ TotalCount(req[1].minute_counts) =
                   Cardinality(InWindow(df, req[1].hour_range))

\* A row without date is counted in the minute series, a row without time
\* in the table.
C7_Witness ==
    /\ Done(1)
    /\ \E i \in DOMAIN DfOf(1) :
          /\ ~DateParsed(DfOf(1)[i])
          /\ i \in InWindow(DfOf(1), req[1].hour_range)
    /\ \E i \in DOMAIN DfOf(1) : DateParsed(DfOf(1)[i]) /\ ~TimeParsed(DfOf(1)[i])
    /\ TotalCount(req[1].minute_counts) = 1

(***************************************************************************)
(* C8.  Whatever update_figs invocations run and interleave, none changes  *)
(* DF_RAW, and invocations with the same arguments return the same three   *)
(* views.                                                                  *)
(***************************************************************************)
C8_DatasetReadOnly ==
    /\ pc \in {"loaded", "serving"} => DF_RAW = load_csvs(files, YEARS).frame
    /\ \A t \in DOMAIN req : \A u \in DOMAIN req :
          (/\ Done(t) /\ Done(u)
           /\ req[t].selected_years = req[u].selected_years
           /\ req[t].hour_range = req[u].hour_range)
          => /\ req[t].pivot = req[u].pivot
             /\ req[t].bars = req[u].bars
             /\ req[t].minute_counts = req[u].minute_counts

\* Two threads have finished the same request on the whole dataset, each
\* having written its columns.
C8_Witness ==
    /\ DOMAIN req = 1..MaxThreads
    /\ \A t \in DOMAIN req : Done(t) /\ ALL \in req[t].selected_years
    /\ \A t \in DOMAIN req : req[t].hour_range = req[1].hour_range
    /\ Len(DF_RAW) > 0
    /\ \A t \in DOMAIN req : \A i \in DOMAIN DfOf(t) : "mes_nome" \in DOMAIN DfOf(t)[i]

(***************************************************************************)
(* C9.  For a selection S of years that is not all of them, every count of *)
(* the selection "all" (each table cell, each entry of the weekday vector, *)
(* the total of the minute series) is >= the same count of S.              *)
(***************************************************************************)
C9_AllDominates ==
    (Done(1) /\ req[1].selected_years # {} /\ ALL \notin req[1].selected_years) =>
        LET whole == DoMinute(1, DoBars(1, DoPivot(1, DoSelect(1,
                        [heap |-> heap,
                         req  |-> [Idle EXCEPT !.selected_years = {ALL},
                                               !.hour_range = req[1].hour_range]])))).req
        IN /\ \A m \in Months : \A d \in Days :
                 GreaterEq(whole.pivot[m][d], req[1].pivot[m][d])
           /\ \A d \in 0..6 : GreaterEq(whole.bars[d], req[1].bars[d])
           /\ TotalCount(whole.minute_counts) >= TotalCount(req[1].minute_counts)

(***************************************************************************)
(* C10.  The minute series has one point for each (minute of day, year)    *)
(* seen among the rows that pass the region and hour filters, no pair      *)
(* twice, no point with count 0, ordered by year and within a year by time *)
(* of day.                                                                 *)
(***************************************************************************)
C10_MinuteSeries ==
    Done(1) =>
        LET df == DfOf(1)
            mc == req[1].minute_counts
            rowsIn == InWindow(df, req[1].hour_range)
            pair(i) == <<df[i].hour, df[i].minute, df[i].ano>>
            point(k) == <<mc[k].hora_minuto.hour, mc[k].hora_minuto.minute, mc[k].ano>>
        IN /\ {point(k) : k \in DOMAIN mc} = {pair(i) : i \in rowsIn}
           /\ \A k \in DOMAIN mc : \A l \in DOMAIN mc : k # l => point(k) # point(l)
           /\ \A k \in DOMAIN mc :
                 /\ mc[k].count = Cardinality({i \in rowsIn : pair(i) = point(k)})
                 /\ mc[k].count >= 1
                 /\ mc[k].hora_minuto.second = 0
           /\ \A k \in DOMAIN mc : \A l \in DOMAIN mc :
                 k < l => \/ mc[k].ano < mc[l].ano
                          \/ /\ mc[k].ano = mc[l].ano
                             /\ 60 * mc[k].hora_minuto.hour + mc[k].hora_minuto.minute
                                < 60 * mc[l].hora_minuto.hour + mc[l].hora_minuto.minute

\* Two points, the one of the earlier year later in the day.
C10_Witness ==
    /\ Done(1)
    /\ Len(req[1].minute_counts) = 2
    /\ req[1].minute_counts[1].ano < req[1].minute_counts[2].ano
    /\ req[1].minute_counts[1].hora_minuto.hour > req[1].minute_counts[2].hora_minuto.hour

====
